---- MODULE Spec2Model ----
(***************************************************************************)
(* Model of python/dgl/mock_dgl_sparse/python/sp_matrix.py: the            *)
(* SparseMatrix wrapper over a coalesced sparse COO tensor, its accessors, *)
(* the val setter, __call__, and the create_from_coo / create_from_csr /   *)
(* create_from_csc factories.                                              *)
(*                                                                         *)
(* One-dimensional tensors are sequences of integers (1-based here,        *)
(* 0-based in the source; index VALUES stay 0-based). An optional tensor   *)
(* is << >> for None and <<t>> for a given tensor t.                       *)
(***************************************************************************)
EXTENDS Integers, Sequences, FiniteSets, TLC

VARIABLES objs, last

vars == <<objs, last>>

(* ---------------------------- bounds ----------------------------------- *)

\* Longest index / value array handed to a constructor or to val / __call__.
MaxLen == 2

\* Largest row or column index in an input.
MaxIdx == 1

\* Side and entry count of the largest matrix whose CSR / CSC pattern is
\* enumerated in SpecPattern.
PatDim == MaxIdx + 2

PatLen == MaxLen + 3

\* Scalar values the inputs are drawn from (duplicates can sum to 0).
Vals == {-1, 1}

\* Number of compressed rows (CSR) or columns (CSC) of an input.
MaxPtr == MaxIdx + 1

\* The replacement tensors handed to the val setter and to __call__:
\* torch.zeros(k), as in the source's own test.
XTensors == {[j \in 1 .. k |-> 0] : k \in 0 .. MaxLen}

None == << >>

Some(t) == <<t>>

Idx == 0 .. MaxIdx

Tensors(S, n) == UNION {[1 .. k -> S] : k \in 0 .. n}

(* ---------------------- the host tensor library ------------------------ *)

Max(S) == CHOOSE m \in S : \A e \in S : e <= m

\* torch.ones(n)
Ones(n) == [k \in 1 .. n |-> 1]

Range(s) == {s[k] : k \in DOMAIN s}

\* Size torch infers for one dimension of a sparse tensor given without a
\* size: the largest index plus one, 0 when there are no indices.
InferDimBad(ind) == IF Len(ind) = 0 THEN 0 ELSE Max(Range(ind))

InferDim(ind) == IF Len(ind) = 0 THEN 0 ELSE Max(Range(ind)) + 1

\* torch.sparse_coo_tensor(i, v) with i = cat(r.unsqueeze(0), c.unsqueeze(0)).
SparseCooTensor(r, c, v) ==
    [indices |-> <<r, c>>, values |-> v, shape |-> <<InferDim(r), InferDim(c)>>]

LexLess(p, q) == p[1] < q[1] \/ (p[1] = q[1] /\ p[2] < q[2])

\* The pairs of S in (row, col) order: the k-th has k - 1 pairs before it.
SortPairs(S) ==
    [k \in 1 .. Cardinality(S) |->
        CHOOSE p \in S : Cardinality({q \in S : LexLess(q, p)}) = k - 1]

RECURSIVE SumTo(_, _)
SumTo(s, n) == IF n = 0 THEN 0 ELSE SumTo(s, n - 1) + s[n]

SumSeq(s) == SumTo(s, Len(s))

\* The positions of an uncoalesced tensor that hold coordinate p, in order.
PositionsOf(t, p) ==
    SelectSeq([k \in 1 .. Len(t.values) |-> k],
              LAMBDA k : <<t.indices[1][k], t.indices[2][k]>> = p)

\* What one coalesced entry holds: the sum of the duplicates (mutant: the
\* last duplicate wins).
MergeLast(t, p) ==
    LET ks == PositionsOf(t, p) IN t.values[ks[Len(ks)]]

Merge(t, p) ==
    LET ks == PositionsOf(t, p) IN SumSeq([j \in 1 .. Len(ks) |-> t.values[ks[j]]])

\* Tensor.coalesce(): one entry per distinct coordinate, in (row, col)
\* order, duplicates summed; explicit zeros are kept.
Coalesce(t) ==
    LET n == Len(t.values)
        s == SortPairs({<<t.indices[1][k], t.indices[2][k]>> : k \in 1 .. n})
    IN  [indices |-> <<[k \in 1 .. Len(s) |-> s[k][1]], [k \in 1 .. Len(s) |-> s[k][2]]>>,
         values  |-> [k \in 1 .. Len(s) |-> Merge(t, s[k])],
         shape   |-> t.shape]

\* Tensor.to_dense() of a coalesced tensor.
ToDense(t) ==
    [p \in (0 .. t.shape[1] - 1) \X (0 .. t.shape[2] - 1) |->
        IF \E k \in 1 .. Len(t.values) : <<t.indices[1][k], t.indices[2][k]>> = p
        THEN LET k == CHOOSE k \in 1 .. Len(t.values) :
                          <<t.indices[1][k], t.indices[2][k]>> = p
             IN  t.values[k]
        ELSE 0]

\* The invariants torch.sparse_csr_tensor demands of (crow_indices,
\* col_indices): pointers start at 0, end at nnz, never decrease; the
\* indices of one row are strictly increasing.
ValidCompressed(indptr, indices) ==
    /\ Len(indptr) >= 2
    /\ indptr[1] = 0
    /\ indptr[Len(indptr)] = Len(indices)
    /\ \A i \in 1 .. Len(indptr) - 1 :
          /\ indptr[i] <= indptr[i + 1]
          /\ \A k \in indptr[i] + 1 .. indptr[i + 1] - 1 : indices[k] < indices[k + 1]

\* Row of the entry at 0-based position k of a CSR tensor (mutant: the
\* pointer array read one slot too far).
CompressedRowOfBad(indptr, k) ==
    CHOOSE i \in 0 .. Len(indptr) - 2 : indptr[i + 1] <= k /\ k <= indptr[i + 2]

CompressedRowOf(indptr, k) ==
    CHOOSE i \in 0 .. Len(indptr) - 2 : indptr[i + 1] <= k /\ k < indptr[i + 2]

\* torch.sparse_csr_tensor(indptr, indices, ones).to_sparse_coo().coalesce()
\* followed by .indices(): the pair (expanded rows, columns), coalesced.
CsrToCooIndices(indptr, indices) ==
    LET n    == Len(indices)
        rows == [k \in 1 .. n |-> CompressedRowOf(indptr, k - 1)]
        t    == [indices |-> <<rows, indices>>,
                 values  |-> Ones(n),
                 shape   |-> <<Len(indptr) - 1, InferDim(indices)>>]
    IN  Coalesce(t).indices

(* --------------------------- SparseMatrix ------------------------------ *)

\* __init__, lines 66-68: the value tensor kept in _val (mutant: the default
\* is filled with zeros).
InitValZeros(r, v) == IF v = None THEN [k \in 1 .. Len(r) |-> 0] ELSE v[1]

InitVal(r, v) == IF v = None THEN Ones(Len(r)) ELSE v[1]

\* __init__: the object's fields after construction.
SparseMatrixInit(r, c, v) ==
    [_row |-> r,
     _col |-> c,
     _val |-> InitVal(r, v),
     adj  |-> Coalesce(SparseCooTensor(r, c, InitVal(r, v)))]

shape(self) == <<self.adj.shape[1], self.adj.shape[2]>>

nnz(self) == Len(self.adj.values)

row(self) == self.adj.indices[1]

col(self) == self.adj.indices[2]

val(self) == self._val

dense(self) == ToDense(self.adj)

\* indices(format, return_shuffle): the COO index pair, or NotImplementedError.
indices(self, format, return_shuffle) ==
    IF format = "COO" /\ ~return_shuffle
    THEN [raised |-> "", value |-> self.adj.indices]
    ELSE [raised |-> "NotImplementedError", value |-> << >>]

(* ------------------------------ state ---------------------------------- *)

\* What the last operation was, on which object, with which arguments, and
\* how it ended. in1 / in2 / inv are a constructor's arguments.
NoOp ==
    [op |-> "none", self |-> 0, x |-> << >>, raised |-> "", res |-> 0,
     in1 |-> << >>, in2 |-> << >>, inv |-> None]

Init ==
    /\ objs = << >>
    /\ last = NoOp

\* torch.sparse_coo_tensor rejects index and value tensors of unequal length.
CooInputs ==
    {<<r, c, v>> \in Tensors(Idx, MaxLen) \X Tensors(Idx, MaxLen)
                     \X ({None} \cup {Some(t) : t \in Tensors(Vals, MaxLen)}) :
        /\ Len(r) = Len(c)
        /\ v # None => Len(v[1]) = Len(r)}

\* SparseMatrix(row, col, val)
SparseMatrixNew(r, c, v) ==
    /\ objs = << >>
    /\ objs' = <<SparseMatrixInit(r, c, v)>>
    /\ last' = [NoOp EXCEPT !.op = "SparseMatrix", !.res = 1,
                            !.in1 = r, !.in2 = c, !.inv = v]

\* create_from_coo(row, col, val)
create_from_coo(r, c, v) ==
    /\ objs = << >>
    /\ objs' = <<SparseMatrixInit(r, c, v)>>
    /\ last' = [NoOp EXCEPT !.op = "create_from_coo", !.res = 1,
                            !.in1 = r, !.in2 = c, !.inv = v]

RECURSIVE Flatten(_, _)
Flatten(f, n) ==
    IF n = 0 THEN << >>
    ELSE Flatten(f, n - 1)
         \o LET s == SortPairs({<<e, e>> : e \in f[n]})
            IN  [k \in 1 .. Len(s) |-> s[k][1]]

\* The compressed inputs with at most n pointer segments, indices below m
\* and at most len entries: every choice of a set of indices per segment.
CompressedInputs(n, m, len) ==
    UNION {
        {<<[i \in 1 .. N + 1 |-> Len(Flatten(f, i - 1))], Flatten(f, N)>> :
            f \in {g \in [1 .. N -> SUBSET (0 .. m - 1)] :
                      SumSeq([i \in 1 .. N |-> Cardinality(g[i])]) <= len}}
        : N \in 1 .. n}

OptVals(n) == {None} \cup {Some(t) : t \in [1 .. n -> Vals]}

\* create_from_csr(indptr, indices, val)
create_from_csr(indptr, ind, v) ==
    /\ objs = << >>
    /\ ValidCompressed(indptr, ind)
    /\ \E ix \in {CsrToCooIndices(indptr, ind)} :
          LET r == ix[1]
              c == ix[2]
          IN  /\ v # None => Len(v[1]) = Len(r)
              /\ objs' = <<SparseMatrixInit(r, c, v)>>
    /\ last' = [NoOp EXCEPT !.op = "create_from_csr", !.res = 1,
                            !.in1 = indptr, !.in2 = ind, !.inv = v]

\* create_from_csc(indptr, indices, val)
create_from_csc(indptr, ind, v) ==
    /\ objs = << >>
    /\ ValidCompressed(indptr, ind)
    /\ \E ix \in {CsrToCooIndices(indptr, ind)} :
          LET c == ix[1]
              r == ix[2]
          IN  /\ v # None => Len(v[1]) = Len(r)
              /\ objs' = <<SparseMatrixInit(r, c, v)>>
    /\ last' = [NoOp EXCEPT !.op = "create_from_csc", !.res = 1,
                            !.in1 = indptr, !.in2 = ind, !.inv = v]

\* The assertion of the val setter, line 153.
SetterAssertStale(self, x) == Len(x) = Len(self._val)

SetterAssert(self, x) == Len(x) = nnz(self)

\* The val setter past its assertion, line 154 (mutant: the sparse tensor is
\* rebuilt from the new values).
SetValRebuild(self, x) ==
    [self EXCEPT !._val = x,
                 !.adj = Coalesce(SparseCooTensor(row(self), col(self), x))]

SetVal(self, x) == [self EXCEPT !._val = x]

\* A.val = x
val_setter(i, x) ==
    /\ i \in 1 .. Len(objs)
    /\ IF SetterAssert(objs[i], x)
       THEN /\ objs' = [objs EXCEPT ![i] = SetVal(objs[i], x)]
            /\ last' = [NoOp EXCEPT !.op = "val_setter", !.self = i, !.x = x]
       ELSE /\ objs' = objs
            /\ last' = [NoOp EXCEPT !.op = "val_setter", !.self = i, !.x = x,
                                    !.raised = "AssertionError"]

\* The assertion of __call__, line 170.
CallAssertStale(self, x) == Len(x) = Len(self._val)

CallAssert(self, x) == Len(x) = nnz(self)

\* __call__ past its assertion, line 171, as the source's test uses it,
\* "new_A = A(x)": the heap after the call and the reference returned. The
\* heap is <<A>> or <<A, new_A>>, A the constructed matrix; a copy made
\* earlier is dropped when new_A is bound again. A copy is a SparseMatrix
\* built from coalesced coordinates, a case A itself ranges over, so calls
\* are made on A (mutant: self is updated in place and returned).
CallInPlace(heap, x) ==
    [heap |-> [heap EXCEPT ![1] = SetVal(heap[1], x)], res |-> 1]

CallResult(heap, x) ==
    [heap |-> <<heap[1], SparseMatrixInit(row(heap[1]), col(heap[1]), Some(x))>>,
     res  |-> 2]

\* new_A = A(x)
call(x) ==
    /\ objs # << >>
    /\ IF CallAssert(objs[1], x)
       THEN \E ret \in {CallResult(objs, x)} :
               /\ objs' = ret.heap
               /\ last' = [NoOp EXCEPT !.op = "call", !.self = 1, !.x = x,
                                       !.res = ret.res]
       ELSE /\ objs' = objs
            /\ last' = [NoOp EXCEPT !.op = "call", !.self = 1, !.x = x,
                                    !.raised = "AssertionError"]

Next ==
    \/ objs = << >> /\ \E i \in CooInputs : SparseMatrixNew(i[1], i[2], i[3])
    \/ objs = << >> /\ \E i \in CooInputs : create_from_coo(i[1], i[2], i[3])
    \/ objs = << >> /\ \E i \in CompressedInputs(MaxPtr, MaxIdx + 1, MaxLen) :
          \E v \in OptVals(Len(i[2])) : create_from_csr(i[1], i[2], v)
    \/ objs = << >> /\ \E i \in CompressedInputs(MaxPtr, MaxIdx + 1, MaxLen) :
          \E v \in OptVals(Len(i[2])) : create_from_csc(i[1], i[2], v)
    \/ \E i \in 1 .. Len(objs), x \in XTensors : val_setter(i, x)
    \/ \E x \in XTensors : call(x)

Spec == Init /\ [][Next]_vars

\* The full patterns of small matrices, given in compressed form without
\* values.
NextPattern ==
    \/ objs = << >> /\ \E i \in CompressedInputs(PatDim, PatDim, PatLen) :
          create_from_csr(i[1], i[2], None)
    \/ objs = << >> /\ \E i \in CompressedInputs(PatDim, PatDim, PatLen) :
          create_from_csc(i[1], i[2], None)

SpecPattern == Init /\ [][NextPattern]_vars

(* ------------------------------ claims --------------------------------- *)

IsCoo(op) == op \in {"SparseMatrix", "create_from_coo"}

IsCtor(op) == IsCoo(op) \/ op \in {"create_from_csr", "create_from_csc"}

\* The value the matrix stores at coordinate (r, c).
StoredAt(self, r, c) == dense(self)[<<r, c>>]

\* The sum of v[k] over the positions k <= n of the input with (r[k], c[k]) = p.
RECURSIVE SumMatching(_, _, _, _, _)
SumMatching(r, c, v, p, n) ==
    IF n = 0 THEN 0
    ELSE SumMatching(r, c, v, p, n - 1) + (IF <<r[n], c[n]>> = p THEN v[n] ELSE 0)

InputPairs(r, c) == {<<r[k], c[k]>> : k \in 1 .. Len(r)}

\* C1: after SparseMatrix(row, col, val) with equal-length inputs, row and
\* col read back the coalesced coordinates (sorted by (row, col), duplicates
\* merged), val has one value per coordinate, and val[k] is the value the
\* matrix stores at (row[k], col[k]).
C1_ReadBackMatches ==
    (IsCoo(last.op) /\ last.inv # None) =>
        LET A == objs[1]
            s == SortPairs(InputPairs(last.in1, last.in2))
        IN  /\ row(A) = [k \in 1 .. Len(s) |-> s[k][1]]
            /\ col(A) = [k \in 1 .. Len(s) |-> s[k][2]]
            /\ Len(val(A)) = Len(row(A))
            /\ \A k \in 1 .. Len(row(A)) : val(A)[k] = StoredAt(A, row(A)[k], col(A)[k])

\* C2: in every reachable state, the arrays returned by row, col and val of
\* every matrix have the same length, and that length is nnz.
C2_EqualLengths ==
    \A i \in 1 .. Len(objs) :
        /\ Len(row(objs[i])) = nnz(objs[i])
        /\ Len(col(objs[i])) = nnz(objs[i])
        /\ Len(val(objs[i])) = nnz(objs[i])

\* The 0-based segment (row for CSR, column for CSC) holding the k-th entry of
\* a compressed input, k counted from 1.
SegmentOf(indptr, k) ==
    CHOOSE i \in 0 .. Len(indptr) - 2 : indptr[i + 1] < k /\ k <= indptr[i + 2]

\* C3: after create_from_csc(indptr, indices, val), the accessor triples
\* (row[j], col[j], val[j]) are exactly the input's entries: (indices[k], i,
\* val[k]) for every column i and every k with indptr[i] <= k < indptr[i+1].
C3_CscEntries ==
    (last.op = "create_from_csc" /\ last.inv # None) =>
        LET A == objs[1]
            v == last.inv[1]
        IN  /\ Len(row(A)) = Len(val(A))
            /\ Len(col(A)) = Len(val(A))
            /\ {<<row(A)[j], col(A)[j], val(A)[j]>> : j \in 1 .. Len(val(A))}
                 = {<<last.in2[k], SegmentOf(last.in1, k), v[k]>> : k \in 1 .. Len(last.in2)}

ExampleIndptr == <<0, 1, 2, 5>>

ExampleIndices == <<1, 2, 0, 1, 2>>

\* C4: after create_from_csr(indptr, indices), the (row[k], col[k]) pairs
\* read back are exactly {(i, indices[k]) : indptr[i] <= k < indptr[i+1]},
\* row i occurs indptr[i+1] - indptr[i] times, and the example input
\* indptr=[0,1,2,5], indices=[1,2,0,1,2] gives rows [0,1,2,2,2] and columns
\* [1,2,0,1,2].
C4_CsrPattern ==
    last.op = "create_from_csr" =>
        LET A == objs[1]
        IN  /\ {<<row(A)[j], col(A)[j]>> : j \in 1 .. nnz(A)}
                 = {<<SegmentOf(last.in1, k), last.in2[k]>> : k \in 1 .. Len(last.in2)}
            /\ Len(col(A)) = Len(row(A))
            /\ \A i \in 1 .. Len(last.in1) - 1 :
                  Cardinality({j \in 1 .. Len(row(A)) : row(A)[j] = i - 1})
                    = last.in1[i + 1] - last.in1[i]
            /\ (last.in1 = ExampleIndptr /\ last.in2 = ExampleIndices) =>
                  /\ row(A) = <<0, 1, 2, 2, 2>>
                  /\ col(A) = <<1, 2, 0, 1, 2>>

C4_Witness ==
    /\ last.op = "create_from_csr"
    /\ last.in1 = ExampleIndptr
    /\ last.in2 = ExampleIndices
    /\ row(objs[1]) = <<0, 1, 2, 2, 2>>

\* C5: a val replacement whose length differs from nnz raises an assertion
\* error and leaves every matrix as it was: no field of any object changes,
\* so val, row, col, nnz, shape and dense() read as before the attempt.
C5_MismatchFails ==
    [][(last'.op = "val_setter" /\ Len(last'.x) # nnz(objs[last'.self])) =>
          /\ last'.raised = "AssertionError"
          /\ objs' = objs]_vars

C5_Witness ==
    /\ last.op = "val_setter"
    /\ last.raised = "AssertionError"
    /\ Len(last.x) > nnz(objs[last.self])
    /\ Len(last.x) = Len(val(objs[last.self]))

\* C6: A(x) with len(x) = A.nnz returns a new object, distinct from A, with
\* A's row, col, nnz and shape and with val = x, and leaves A (its row, col,
\* val and every other field) unchanged; with len(x) # A.nnz it raises an
\* assertion error and creates nothing.
C6_CallCopies ==
    [][last'.op = "call" =>
          LET i == last'.self
              x == last'.x
              b == last'.res
          IN  IF Len(x) = nnz(objs[i])
              THEN /\ last'.raised = ""
                   /\ b # i
                   /\ b \in DOMAIN objs'
                   /\ row(objs'[b]) = row(objs[i])
                   /\ col(objs'[b]) = col(objs[i])
                   /\ nnz(objs'[b]) = nnz(objs[i])
                   /\ shape(objs'[b]) = shape(objs[i])
                   /\ val(objs'[b]) = x
                   /\ objs'[i] = objs[i]
                   /\ row(objs'[i]) = row(objs[i])
                   /\ col(objs'[i]) = col(objs[i])
                   /\ val(objs'[i]) = val(objs[i])
              ELSE /\ last'.raised = "AssertionError"
                   /\ last'.res = 0
                   /\ objs' = objs]_vars

C6_Witness ==
    /\ last.op = "call"
    /\ last.raised = ""
    /\ last.res # last.self
    /\ nnz(objs[last.res]) = 2
    /\ val(objs[last.res]) = last.x
    /\ val(objs[last.self]) # last.x

\* C7: a constructor called without values yields a val array of all ones
\* whose length is the length of the input index array (row for the COO
\* forms, indices for the compressed forms).
C7_DefaultOnes ==
    (IsCtor(last.op) /\ last.inv = None) =>
        val(objs[1]) = Ones(IF IsCoo(last.op) THEN Len(last.in1) ELSE Len(last.in2))

C7_Witness ==
    /\ last.op = "SparseMatrix"
    /\ last.inv = None
    /\ Len(last.in1) = 2
    /\ nnz(objs[1]) = 1
    /\ val(objs[1]) = <<1, 1>>

\* C8: every non-empty matrix, freshly built, after val replacement, or made
\* by __call__, has shape (max(row) + 1, max(col) + 1), for the row and col
\* it was built from and for those it reads back, and every stored
\* coordinate lies inside the shape.
C8_ShapeInferred ==
    \A i \in 1 .. Len(objs) :
        LET A == objs[i]
        IN  nnz(A) > 0 =>
              /\ shape(A) = <<Max(Range(A._row)) + 1, Max(Range(A._col)) + 1>>
              /\ shape(A) = <<Max(Range(row(A))) + 1, Max(Range(col(A))) + 1>>
              /\ \A k \in 1 .. nnz(A) :
                    /\ 0 <= row(A)[k] /\ row(A)[k] < shape(A)[1]
                    /\ 0 <= col(A)[k] /\ col(A)[k] < shape(A)[2]

C8_Witness ==
    /\ Len(objs) = 2
    /\ last.op = "val_setter"
    /\ last.raised = ""
    /\ last.self = 2
    /\ nnz(objs[2]) = 2
    /\ shape(objs[2]) = <<2, 1>>

\* C9: after SparseMatrix(row, col, val) with equal-length inputs,
\* dense()[r][c] is the sum of val[k] over the input positions k with
\* (row[k], col[k]) = (r, c), 0 where there is none, and nnz is the number of
\* distinct (row, col) pairs of the input.
C9_DenseSums ==
    (IsCoo(last.op) /\ last.inv # None) =>
        LET A == objs[1]
            r == last.in1
            c == last.in2
            v == last.inv[1]
        IN  /\ InputPairs(r, c) \subseteq DOMAIN dense(A)
            /\ DOMAIN dense(A) = (0 .. shape(A)[1] - 1) \X (0 .. shape(A)[2] - 1)
            /\ \A p \in DOMAIN dense(A) : dense(A)[p] = SumMatching(r, c, v, p, Len(r))
            /\ nnz(A) = Cardinality(InputPairs(r, c))

C9_Witness ==
    /\ IsCoo(last.op)
    /\ last.in1 = <<1, 1>>
    /\ last.in2 = <<0, 0>>
    /\ last.inv = Some(<<1, 1>>)
    /\ dense(objs[1])[<<1, 0>>] = 2
    /\ dense(objs[1])[<<0, 0>>] = 0
    /\ nnz(objs[1]) = 1

====
